---- MODULE Spec2Model ----
(***************************************************************************)
(* A model of build.rs of buildtime-tetris: the playfield (Grid), the      *)
(* piece catalogue, the level table, the key debounce and the game         *)
(* controller (Game::update driven by the frame loop of run_tetris).       *)
(***************************************************************************)
EXTENDS Integers, Sequences, FiniteSets, TLC

VARIABLES
    game,             \* the Game struct (build.rs 48-60), a record
    FREEZE_DURATION,  \* the static of keys_registered (build.rs 26)
    pc,               \* run_tetris: "loop", "done", "panic"; "squash"/"squashed" in SpecSquash
    panic,            \* which assertion stopped the program, "" while it runs
    ev,               \* what the last step did (a log, read by the properties only)
    keys,             \* the keys the player still has to get registered, in order
    draws,            \* the shapes the random source still has to deliver, in order
    budget            \* frames of unscripted play left

vars == <<game, FREEZE_DURATION, pc, panic, ev, keys, draws, budget>>

----------------------------------------------------------------------------
(* Program constants *)

WIDTH == 10
HEIGHT == 22
FREEZE == 60
SPAWN_Y == 1
MAX_SQUASHED == 4
U8_MAX == 255

None == "None"
Tetrominoes == {"I", "O", "T", "J", "L", "S", "Z"}
Rotations == {"DEG0", "DEG90", "DEG180", "DEG270"}
States == {"Start", "Play", "Pause", "Over", "WindowClose"}

SpawnPos == <<WIDTH \div 2, SPAWN_Y>>

----------------------------------------------------------------------------
(* Grid *)

Cells == 0 .. (WIDTH * HEIGHT - 1)

\* Grid::new: every cell None.
GridNew == [i \in Cells |-> None]

\* The two assert! lines shared by Grid::at and Grid::at_mut.
at_asserts(x, y) == x < WIDTH /\ y < HEIGHT

\* Grid::at: the cell at index y * WIDTH + x.
at(cells, x, y) == cells[y * WIDTH + x]

\* `filled` at the end of one iteration of the scan loop: no cell of row y is None.
RowFilled(cells, y) == \A x \in 0 .. (WIDTH - 1) : at(cells, x, y) # None

\* `min_y_updated` at the end of one iteration: some cell of row y is Some.
RowTouched(cells, y) == \E x \in 0 .. (WIDTH - 1) : at(cells, x, y) # None

\* The scan `for y in (0..HEIGHT).rev()`: min_y is overwritten by every row that
\* holds a cell, so it ends as the topmost such row, or HEIGHT.
RECURSIVE ScanMinY(_, _, _)
ScanMinY(cells, y, min_y) ==
    IF y < 0 THEN min_y
    ELSE ScanMinY(cells, y - 1, IF RowTouched(cells, y) THEN y ELSE min_y)

\* The same scan: the filled rows pushed to src_range_indices, bottom row first.
RECURSIVE ScanFilled(_, _, _)
ScanFilled(cells, y, acc) ==
    IF y < 0 THEN acc
    ELSE ScanFilled(cells, y - 1, IF RowFilled(cells, y) THEN Append(acc, y) ELSE acc)

\* no_filled_rows (line 110).
NoFilledRows(cells) == Len(ScanFilled(cells, HEIGHT - 1, <<>>))

\* u8::saturating_sub(1)
SaturatingSub1(n) == IF n = 0 THEN 0 ELSE n - 1

\* src_range_indices after lines 111-113.
SrcRangeIndices(min_y, filled) ==
    IF min_y # HEIGHT THEN Append(filled, SaturatingSub1(min_y)) ELSE filled

\* The row copies of one window (rows0, rows1) = (s[w], s[w+1]), nth_del = w - 1,
\* in the order the loop of lines 118-123 makes them: <<y_dst, y_src>>.
WindowCopies(s, w) ==
    [i \in 1 .. (IF s[w] > s[w + 1] + 1 THEN s[w] - (s[w + 1] + 1) ELSE 0) |->
        <<(s[w] + (w - 1)) - (i - 1), s[w] - i>>]

\* All row copies of `for (nth_del, rows) in src_range_indices.windows(2)`.
RECURSIVE AllCopies(_, _)
AllCopies(s, w) ==
    IF w + 1 > Len(s) THEN <<>>
    ELSE WindowCopies(s, w) \o AllCopies(s, w + 1)

\* The inner `for x` loop of lines 120-122:
\* *self.at_mut(x, y_dst) = self.at(x, y_src).clone() for every x.
CopyRow(cells, y_dst, y_src) ==
    [i \in Cells |->
        IF i \div WIDTH = y_dst THEN at(cells, i % WIDTH, y_src)
        ELSE cells[i]]

\* The copies are made in place, one after the other.
RECURSIVE ApplyCopies(_, _, _)
ApplyCopies(cells, copies, i) ==
    IF i > Len(copies) THEN cells
    ELSE ApplyCopies(CopyRow(cells, copies[i][1], copies[i][2]), copies, i + 1)

\* Lines 125-131: rows min_y .. min_y + no_filled_rows - 1 are set to None
\* (`for y_dst in min_y..min_y + no_filled_rows as u8`, every x).
ClearTop(cells, min_y, k) ==
    IF min_y = HEIGHT THEN cells
    ELSE [i \in Cells |->
            IF i \div WIDTH >= min_y /\ i \div WIDTH < min_y + k THEN None
            ELSE cells[i]]

\* Every at/at_mut call of lines 115-131 passes the asserts of at/at_mut, and
\* the u8 arithmetic of lines 116, 119 and 126 stays in range.
SquashAccessOk(copies, min_y, k) ==
    /\ \A i \in 1 .. Len(copies) :
          /\ copies[i][1] >= 0 /\ copies[i][1] <= U8_MAX
          /\ at_asserts(0, copies[i][1]) /\ at_asserts(WIDTH - 1, copies[i][1])
          /\ at_asserts(0, copies[i][2]) /\ at_asserts(WIDTH - 1, copies[i][2])
    /\ min_y # HEIGHT =>
          /\ min_y + k <= U8_MAX
          /\ \A y \in min_y .. (min_y + k - 1) : at_asserts(0, y)

\* Variant: the assert written with 3 for 4.
to_score_asserts_3(no_squashed_rows) == no_squashed_rows <= 3

\* Variant: five points a row.
_to_score_linear(no_squashed_rows) == 5 * no_squashed_rows

\* Grid::_to_score: the assert, then the table.
to_score_asserts(no_squashed_rows) == no_squashed_rows <= MAX_SQUASHED

_to_score(no_squashed_rows) ==
    CASE no_squashed_rows = 0 -> 0
      [] no_squashed_rows = 1 -> 5
      [] no_squashed_rows = 2 -> 15
      [] no_squashed_rows = 3 -> 30
      [] OTHER -> 50

\* Lines 115-133 once the copies are known.
SquashCopies(cells, min_y, k, copies) ==
    [cells |-> ClearTop(ApplyCopies(cells, copies, 1), min_y, k),
     rows  |-> k,
     panic |-> IF ~SquashAccessOk(copies, min_y, k) THEN "at"
               ELSE IF ~to_score_asserts(k) THEN "score"
               ELSE ""]

\* Lines 110-133 once the scan is done.
SquashScanned(cells, min_y, filled) ==
    SquashCopies(cells, min_y, Len(filled), AllCopies(SrcRangeIndices(min_y, filled), 1))

\* Grid::squash_filled_rows: the grid left behind, the number of filled rows,
\* and which assertion (if any) it trips.
squash_filled_rows(cells) ==
    SquashScanned(cells, ScanMinY(cells, HEIGHT - 1, HEIGHT),
                  ScanFilled(cells, HEIGHT - 1, <<>>))

----------------------------------------------------------------------------
(* Piece catalogue, rotation, level *)

\* Tetromino::neighbors: the four (dx, dy) offsets of a shape in an orientation.
neighbors(t, rot) ==
    LET flat == rot \in {"DEG0", "DEG180"} IN
    CASE t = "I" /\ flat         -> <<<<-1, 0>>, <<0, 0>>, <<1, 0>>, <<2, 0>>>>
      [] t = "I" /\ ~flat        -> <<<<0, -1>>, <<0, 0>>, <<0, 1>>, <<0, 2>>>>
      [] t = "O"                 -> <<<<0, 0>>, <<1, 0>>, <<0, 1>>, <<1, 1>>>>
      [] t = "T" /\ rot = "DEG0"   -> <<<<0, -1>>, <<-1, 0>>, <<0, 0>>, <<1, 0>>>>
      [] t = "T" /\ rot = "DEG90"  -> <<<<0, -1>>, <<0, 0>>, <<1, 0>>, <<0, 1>>>>
      [] t = "T" /\ rot = "DEG180" -> <<<<-1, 0>>, <<0, 0>>, <<1, 0>>, <<0, 1>>>>
      [] t = "T" /\ rot = "DEG270" -> <<<<0, -1>>, <<-1, 0>>, <<0, 0>>, <<0, 1>>>>
      [] t = "J" /\ rot = "DEG0"   -> <<<<0, -1>>, <<0, 0>>, <<-1, 1>>, <<0, 1>>>>
      [] t = "J" /\ rot = "DEG90"  -> <<<<-1, -1>>, <<-1, 0>>, <<0, 0>>, <<1, 0>>>>
      [] t = "J" /\ rot = "DEG180" -> <<<<0, -1>>, <<1, -1>>, <<0, 0>>, <<0, 1>>>>
      [] t = "J" /\ rot = "DEG270" -> <<<<-1, 0>>, <<0, 0>>, <<1, 0>>, <<1, 1>>>>
      [] t = "L" /\ rot = "DEG0"   -> <<<<0, -1>>, <<0, 0>>, <<0, 1>>, <<1, 1>>>>
      [] t = "L" /\ rot = "DEG90"  -> <<<<-1, 0>>, <<0, 0>>, <<1, 0>>, <<-1, 1>>>>
      [] t = "L" /\ rot = "DEG180" -> <<<<-1, -1>>, <<0, -1>>, <<0, 0>>, <<0, 1>>>>
      [] t = "L" /\ rot = "DEG270" -> <<<<1, -1>>, <<-1, 0>>, <<0, 0>>, <<1, 0>>>>
      [] t = "S" /\ flat         -> <<<<0, 0>>, <<1, 0>>, <<-1, 1>>, <<0, 1>>>>
      [] t = "S" /\ ~flat        -> <<<<0, -1>>, <<0, 0>>, <<1, 0>>, <<1, 1>>>>
      [] t = "Z" /\ flat         -> <<<<-1, 0>>, <<0, 0>>, <<0, 1>>, <<1, 1>>>>
      [] t = "Z" /\ ~flat        -> <<<<0, -1>>, <<-1, 0>>, <<0, 0>>, <<-1, 1>>>>

\* Rotation::spin_cw
spin_cw(rot) ==
    CASE rot = "DEG0" -> "DEG90"
      [] rot = "DEG90" -> "DEG180"
      [] rot = "DEG180" -> "DEG270"
      [] rot = "DEG270" -> "DEG0"

\* Rotation::spin_acw
spin_acw(rot) ==
    CASE rot = "DEG0" -> "DEG270"
      [] rot = "DEG90" -> "DEG0"
      [] rot = "DEG180" -> "DEG90"
      [] rot = "DEG270" -> "DEG180"

\* Variant: the piece counter starts at 0.
LevelNewFromZero == [tick_rate |-> 30, piece_count |-> 0]

\* Level::new
LevelNew == [tick_rate |-> 30, piece_count |-> 1]

\* The match of Level::update on piece_count.
TickRateOf(piece_count) ==
    CASE piece_count <= 25 -> 30
      [] piece_count <= 50 -> 25
      [] piece_count <= 100 -> 20
      [] piece_count <= 200 -> 15
      [] piece_count <= 300 -> 12
      [] piece_count <= 500 -> 10
      [] piece_count <= 700 -> 8
      [] piece_count <= 900 -> 6
      [] OTHER -> 5

\* Level::update
LevelUpdate(level) ==
    [tick_rate |-> TickRateOf(level.piece_count + 1),
     piece_count |-> level.piece_count + 1]

----------------------------------------------------------------------------
(* Key debounce *)

\* keys_registered: `down` says whether one of key_codes is down. The result
\* and the new value of the shared static FREEZE_DURATION.
keys_registered(duration, down) ==
    IF duration = 0 /\ down THEN [reg |-> TRUE, f |-> FREEZE]
    ELSE IF duration > 0 THEN [reg |-> FALSE, f |-> duration - 1]
    ELSE [reg |-> FALSE, f |-> duration]

----------------------------------------------------------------------------
(* Game *)

\* Game::new, with the two shapes rand::random() delivers.
GameNew(t, next) ==
    [state |-> "Start",
     grid |-> GridNew,
     pos |-> SpawnPos,
     tetromino |-> t,
     rot |-> "DEG0",
     holding_tetromino |-> None,
     swapped |-> FALSE,
     next_tetromino |-> next,
     level |-> LevelNew,
     tick |-> 0,
     score |-> 0]

\* Variant: `>` for `>=`.
OffGridOffByOne(x, y) == x > WIDTH \/ y > HEIGHT

\* The test `x >= Grid::WIDTH || y >= Grid::HEIGHT` of _movable_with (322).
OffGrid(x, y) == x >= WIDTH \/ y >= HEIGHT

\* u8::checked_add_signed is Some
CheckedAddOk(v) == v >= 0 /\ v <= U8_MAX

\* One neighbour of the loop of _movable_with, at the cell (x, y) the checked
\* additions give: "free", "blocked", or "panic" when Grid::at trips its asserts.
CellCheck(cells, x, y) ==
    IF ~(CheckedAddOk(x) /\ CheckedAddOk(y)) THEN "blocked"
    ELSE IF OffGrid(x, y) THEN "blocked"
    ELSE IF ~at_asserts(x, y) THEN "panic"
    ELSE IF at(cells, x, y) # None THEN "blocked"
    ELSE "free"

\* The loop of _movable_with from neighbour i on: "true", "false" or "panic".
RECURSIVE MovableFrom(_, _, _, _, _, _)
MovableNext(cells, pos, nb, x_dir, y_dir, i, c) ==
    IF c = "free" THEN MovableFrom(cells, pos, nb, x_dir, y_dir, i + 1)
    ELSE IF c = "panic" THEN "panic"
    ELSE "false"

MovableFrom(cells, pos, nb, x_dir, y_dir, i) ==
    IF i > 4 THEN "true"
    ELSE MovableNext(cells, pos, nb, x_dir, y_dir, i,
                     CellCheck(cells, pos[1] + (nb[i][1] + x_dir), pos[2] + (nb[i][2] + y_dir)))

\* Game::_movable_with
_movable_with(g, rot, x_dir, y_dir) ==
    MovableFrom(g.grid, g.pos, neighbors(g.tetromino, rot), x_dir, y_dir, 1)

----------------------------------------------------------------------------
(* One call of Game::update, as a function of the game, the debounce counter,
   the set of keys the keyboard reports and the shapes the random source
   would deliver. The result: the new game and counter, the assertion that
   stopped the program (or ""), and a log of what was done. *)

NoKeyLog == [seen |-> {}, last |-> "", ago |-> 0, held |-> FALSE, gap |-> 0]

NoEv == [op |-> "", reg |-> "", fall |-> "", locked |-> FALSE, rows |-> 0,
         clean |-> TRUE, drew |-> 0, in |-> {}, locks |-> 0, keylog |-> NoKeyLog]

Did(reg, op) == [NoEv EXCEPT !.reg = reg, !.op = op]

R(g, f, e) == [game |-> g, f |-> f, panic |-> "", ev |-> e]
P(g, f, e, why) == [game |-> g, f |-> f, panic |-> why, ev |-> e]

\* Where the Play branch stands after a step: next is "return", "fall" (go on
\* to the fall timer), "lock" (call place_tetromino_then_update) or "panic".
D(g, f, e, next) == [game |-> g, f |-> f, ev |-> e, next |-> next]

\* reset_piece
reset_piece(g, rnd) ==
    [g EXCEPT !.tetromino = g.next_tetromino, !.next_tetromino = rnd, !.rot = "DEG0"]

\* Lines 420-426 from neighbour i on: the cells written, or the assert tripped.
RECURSIVE WriteFrom(_, _, _, _, _)
WriteFrom(cells, pos, nb, t, i) ==
    IF i > 4 THEN [cells |-> cells, panic |-> ""]
    ELSE IF ~(CheckedAddOk(pos[1] + nb[i][1]) /\ CheckedAddOk(pos[2] + nb[i][2]))
    THEN [cells |-> cells, panic |-> "overflow"]
    ELSE IF ~at_asserts(pos[1] + nb[i][1], pos[2] + nb[i][2])
    THEN [cells |-> cells, panic |-> "at"]
    ELSE WriteFrom([cells EXCEPT ![(pos[2] + nb[i][2]) * WIDTH + (pos[1] + nb[i][1])] = t],
                   pos, nb, t, i + 1)

\* Whether the four cells the lock writes were all None before it (log only).
TargetsEmpty(g) ==
    \A n \in {neighbors(g.tetromino, g.rot)[i] : i \in 1 .. 4} :
        /\ g.pos[1] + n[1] \in 0 .. (WIDTH - 1)
        /\ g.pos[2] + n[2] \in 0 .. (HEIGHT - 1)
        /\ at(g.grid, g.pos[1] + n[1], g.pos[2] + n[2]) = None

\* The test of line 429: the piece held by game.tetromino and game.rot at this
\* point of the lock, at the position game.pos was just reset to.
SpawnCheck(g) == _movable_with(g, g.rot, 0, 0)

\* Lines 429-436, m the outcome of the test of line 429.
PlaceChecked(g, f, e, rnd, m) ==
    IF m = "panic" THEN P(g, f, e, "at")
    ELSE IF m = "false" THEN R([g EXCEPT !.state = "Over"], f, e)
    ELSE R([reset_piece(g, rnd) EXCEPT !.swapped = FALSE,
                                       !.level = LevelUpdate(@),
                                       !.tick = 0],
           f, [e EXCEPT !.drew = 1])

\* Lines 427-428, sq the outcome of squash_filled_rows.
PlaceSquashed(g, f, e, rnd, sq) ==
    IF sq.panic # "" THEN P([g EXCEPT !.grid = sq.cells], f, [e EXCEPT !.rows = sq.rows], sq.panic)
    ELSE PlaceChecked([g EXCEPT !.grid = sq.cells,
                                !.score = @ + _to_score(sq.rows),
                                !.pos = SpawnPos],
                      f, [e EXCEPT !.rows = sq.rows], rnd,
                      SpawnCheck([g EXCEPT !.grid = sq.cells, !.pos = SpawnPos]))

\* Lines 427-436, w the outcome of the writes of lines 420-426.
PlaceWritten(g, f, e, rnd, w) ==
    IF w.panic # "" THEN P([g EXCEPT !.grid = w.cells], f, e, w.panic)
    ELSE PlaceSquashed(g, f, e, rnd, squash_filled_rows(w.cells))

\* place_tetromino_then_update
place_tetromino_then_update(g, f, e, rnd) ==
    PlaceWritten(g, f, [e EXCEPT !.locked = TRUE, !.clean = TargetsEmpty(g)], rnd,
                 WriteFrom(g.grid, g.pos, neighbors(g.tetromino, g.rot), g.tetromino, 1))

\* The `while self._movable_with(self.rot, 0, 1)` loop of the hard drop.
RECURSIVE HardDrop(_)
\* Variant: an `if` for the `while`, the piece goes down one row at most.
HardDropNextOnce(g, m) ==
    IF m = "true" THEN [game |-> [g EXCEPT !.pos[2] = @ + 1], panic |-> ""]
    ELSE [game |-> g, panic |-> IF m = "panic" THEN "at" ELSE ""]

HardDropNext(g, m) ==
    IF m = "true" THEN HardDrop([g EXCEPT !.pos[2] = @ + 1])
    ELSE [game |-> g, panic |-> IF m = "panic" THEN "at" ELSE ""]

HardDrop(g) == HardDropNext(g, _movable_with(g, g.rot, 0, 1))

\* Variant: the right-hand offsets tried before the left-hand ones.
KickOffsetsRightFirst == <<0, 1, -1, 2, -2>>

\* The array of the two `for x_offset in [0, -1, 1, -2i8, 2]` loops (368, 378).
KickOffsets == <<0, -1, 1, -2, 2>>

\* u8::saturating_add_signed
SaturatingAddSigned(v, d) ==
    IF v + d < 0 THEN 0 ELSE IF v + d > U8_MAX THEN U8_MAX ELSE v + d

\* The `for x_offset in [0, -1, 1, -2, 2]` loop of a rotation, from offset i on.
RECURSIVE RotateFrom(_, _, _)
RotateNext(g, new_rot, i, m) ==
    IF m = "panic" THEN [found |-> FALSE, game |-> g, panic |-> "at"]
    ELSE IF m = "true"
    THEN [found |-> TRUE,
          game |-> [g EXCEPT !.pos[1] = SaturatingAddSigned(@, KickOffsets[i]),
                             !.rot = new_rot],
          panic |-> ""]
    ELSE RotateFrom(g, new_rot, i + 1)

RotateFrom(g, new_rot, i) ==
    IF i > Len(KickOffsets) THEN [found |-> FALSE, game |-> g, panic |-> ""]
    ELSE RotateNext(g, new_rot, i, _movable_with(g, new_rot, KickOffsets[i], 0))

\* Variant: the exchange leaves the orientation as it is.
HoldKeepsRot(g, rnd) ==
    IF g.holding_tetromino # None
    THEN [g EXCEPT !.holding_tetromino = g.tetromino,
                   !.tetromino = g.holding_tetromino,
                   !.pos = SpawnPos,
                   !.swapped = TRUE]
    ELSE [reset_piece([g EXCEPT !.holding_tetromino = g.tetromino], rnd)
              EXCEPT !.pos = SpawnPos, !.swapped = TRUE]

\* The body of the hold/swap branch (388-398).
Hold(g, rnd) ==
    IF g.holding_tetromino # None
    THEN [g EXCEPT !.holding_tetromino = g.tetromino,
                   !.tetromino = g.holding_tetromino,
                   !.pos = SpawnPos,
                   !.rot = "DEG0",
                   !.swapped = TRUE]
    ELSE [reset_piece([g EXCEPT !.holding_tetromino = g.tetromino], rnd)
              EXCEPT !.pos = SpawnPos, !.swapped = TRUE]

\* The if / else-if chain of lines 347-400, one condition after the other. Each
\* keys_registered call reads and writes the one shared counter, so the counter
\* is handed from one condition to the next. `e` logs a key that registered
\* without its branch being taken.

\* Line 385: hold/swap.
\* Variant: without the `&& !self.swapped` of line 386.
PlayHoldKAlways(g, rnd, e, k) ==
    IF k.reg
    THEN D(Hold(g, rnd), k.f,
           [Did("Shift", "hold") EXCEPT !.drew = IF g.holding_tetromino = None THEN 1 ELSE 0],
           "return")
    ELSE D(g, k.f, e, "fall")

PlayHoldK(g, rnd, e, k) ==
    IF k.reg /\ ~g.swapped
    THEN D(Hold(g, rnd), k.f,
           [Did("Shift", "hold") EXCEPT !.drew = IF g.holding_tetromino = None THEN 1 ELSE 0],
           "return")
    ELSE D(g, k.f, IF k.reg THEN Did("Shift", "hold_refused") ELSE e, "fall")

PlayHold(g, f, in, rnd, e) == PlayHoldK(g, rnd, e, keys_registered(f, "Shift" \in in))

\* Lines 366-384: the two rotations. The second key is polled only when the
\* first did not register.
PlayRotateR(g, f, key, r) ==
    IF r.panic # "" THEN D(g, f, Did(key, "rotate"), "panic")
    ELSE IF r.found THEN D(r.game, f, Did(key, "rotate"), "return")
    ELSE D(g, f, Did(key, "rotate_rejected"), "fall")

PlayRotateKK(g, in, rnd, e, kU, kC) ==
    IF kU.reg THEN PlayRotateR(g, kU.f, "Up", RotateFrom(g, spin_cw(g.rot), 1))
    ELSE IF kC.reg THEN PlayRotateR(g, kC.f, "Ctrl", RotateFrom(g, spin_acw(g.rot), 1))
    ELSE PlayHold(g, kC.f, in, rnd, e)

PlayRotateK(g, in, rnd, e, kU) ==
    PlayRotateKK(g, in, rnd, e, kU,
                 IF kU.reg THEN kU ELSE keys_registered(kU.f, "Ctrl" \in in))

PlayRotate(g, f, in, rnd, e) == PlayRotateK(g, in, rnd, e, keys_registered(f, "Up" \in in))

\* Lines 359-365: hard drop.
PlaySpaceH(f, hd) ==
    IF hd.panic # "" THEN D(hd.game, f, Did("Space", "hard_drop"), "panic")
    ELSE D(hd.game, f, Did("Space", "hard_drop"), "lock")

PlaySpaceK(g, in, rnd, e, k) ==
    IF k.reg THEN PlaySpaceH(k.f, HardDrop(g))
    ELSE PlayRotate(g, k.f, in, rnd, e)

PlaySpace(g, f, in, rnd, e) == PlaySpaceK(g, in, rnd, e, keys_registered(f, "Space" \in in))

\* Lines 351-358: soft drop.
PlayDownM(g, f, m) ==
    IF m = "panic" THEN D(g, f, Did("Down", "soft_drop"), "panic")
    ELSE IF m = "true" THEN D([g EXCEPT !.pos[2] = @ + 1], f, Did("Down", "soft_drop"), "fall")
    ELSE D(g, f, Did("Down", "soft_drop_lock"), "lock")

PlayDownK(g, in, rnd, e, k) ==
    IF k.reg THEN PlayDownM(g, k.f, _movable_with(g, g.rot, 0, 1))
    ELSE PlaySpace(g, k.f, in, rnd, e)

PlayDown(g, f, in, rnd, e) == PlayDownK(g, in, rnd, e, keys_registered(f, "Down" \in in))

\* Lines 349-350: move right.
PlayRightM(g, in, rnd, e, k, m) ==
    IF m = "panic" THEN D(g, k.f, Did("Right", "right"), "panic")
    ELSE IF m = "true" THEN D([g EXCEPT !.pos[1] = @ + 1], k.f, Did("Right", "right"), "fall")
    ELSE PlayDown(g, k.f, in, rnd, IF k.reg THEN Did("Right", "right_blocked") ELSE e)

PlayRightK(g, in, rnd, e, k) ==
    PlayRightM(g, in, rnd, e, k, IF k.reg THEN _movable_with(g, g.rot, 1, 0) ELSE "false")

PlayRight(g, f, in, rnd, e) == PlayRightK(g, in, rnd, e, keys_registered(f, "Right" \in in))

\* Lines 347-348: move left.
PlayLeftM(g, in, rnd, k, m) ==
    IF m = "panic" THEN D(g, k.f, Did("Left", "left"), "panic")
    ELSE IF m = "true" THEN D([g EXCEPT !.pos[1] = @ - 1], k.f, Did("Left", "left"), "fall")
    ELSE PlayRight(g, k.f, in, rnd, IF k.reg THEN Did("Left", "left_blocked") ELSE NoEv)

PlayLeftK(g, in, rnd, k) ==
    PlayLeftM(g, in, rnd, k, IF k.reg THEN _movable_with(g, g.rot, -1, 0) ELSE "false")

PlayKeys(g, f, in, rnd) == PlayLeftK(g, in, rnd, keys_registered(f, "Left" \in in))

\* Lines 402-411: the fall timer, reached when no branch returned.
\* Variant: a piece that cannot go down rests, the timer starts again.
PlayFallMRests(d, m) ==
    IF m = "panic" THEN [d EXCEPT !.next = "panic"]
    ELSE IF m = "true"
    THEN [d EXCEPT !.game.pos[2] = @ + 1, !.game.tick = 0, !.ev.fall = "descend",
                   !.next = "return"]
    ELSE [d EXCEPT !.game.tick = 0, !.ev.fall = "rest", !.next = "return"]

PlayFallM(d, m) ==
    IF m = "panic" THEN [d EXCEPT !.next = "panic"]
    ELSE IF m = "true"
    THEN [d EXCEPT !.game.pos[2] = @ + 1, !.game.tick = 0, !.ev.fall = "descend",
                   !.next = "return"]
    ELSE [d EXCEPT !.ev.fall = "lock", !.next = "lock"]

\* Variant: `>` for the `>=` of line 402.
PlayFallGreater(d) ==
    IF d.next # "fall" THEN d
    ELSE IF d.game.tick > d.game.level.tick_rate
    THEN PlayFallM(d, _movable_with(d.game, d.game.rot, 0, 1))
    ELSE [d EXCEPT !.game.tick = @ + 1, !.ev.fall = "tick", !.next = "return"]

PlayFall(d) ==
    IF d.next # "fall" THEN d
    ELSE IF d.game.tick >= d.game.level.tick_rate
    THEN PlayFallM(d, _movable_with(d.game, d.game.rot, 0, 1))
    ELSE [d EXCEPT !.game.tick = @ + 1, !.ev.fall = "tick", !.next = "return"]

\* The lock sequence, when a branch or the fall timer asked for it.
PlayLock(d, rnd) ==
    IF d.next = "lock" THEN place_tetromino_then_update(d.game, d.f, d.ev, rnd)
    ELSE IF d.next = "panic" THEN P(d.game, d.f, d.ev, "at")
    ELSE R(d.game, d.f, d.ev)

\* The Play branch of Game::update after the pause test.
Play(g, f, in, rnd) == PlayLock(PlayFall(PlayKeys(g, f, in, rnd)), rnd)

\* Variant: Start does not read the quit key.
MenuKeyStartNoQuit(state, in) ==
    CASE state = "Start" -> IF "Enter" \in in THEN "Enter" ELSE ""
      [] state = "Pause" -> IF "EnterReleased" \in in THEN "EnterReleased"
                            ELSE IF "Q" \in in THEN "Q" ELSE ""
      [] state = "Over"  -> IF "Enter" \in in THEN "Enter" ELSE IF "Q" \in in THEN "Q" ELSE ""

\* Variant: the restart leaves the new game in Start.
MenuNextRestartToStart(state, key) ==
    IF key = "" THEN state
    ELSE IF key = "Q" THEN "WindowClose"
    ELSE IF state = "Over" THEN "Start"
    ELSE "Play"

\* Variant: Pause resumes on Enter pressed as well as on Enter released.
MenuKeyPauseOnPress(state, in) ==
    CASE state = "Start" -> IF "Enter" \in in THEN "Enter" ELSE IF "Q" \in in THEN "Q" ELSE ""
      [] state = "Pause" -> IF "EnterReleased" \in in THEN "EnterReleased"
                            ELSE IF "Enter" \in in THEN "Enter"
                            ELSE IF "Q" \in in THEN "Q" ELSE ""
      [] state = "Over"  -> IF "Enter" \in in THEN "Enter" ELSE IF "Q" \in in THEN "Q" ELSE ""

\* The state a branch of Game::update other than Play moves to, and the key
\* that made it ("" and the same state when no key of the branch is reported).
MenuKey(state, in) ==
    CASE state = "Start" -> IF "Enter" \in in THEN "Enter" ELSE IF "Q" \in in THEN "Q" ELSE ""
      [] state = "Pause" -> IF "EnterReleased" \in in THEN "EnterReleased"
                            ELSE IF "Q" \in in THEN "Q" ELSE ""
      [] state = "Over"  -> IF "Enter" \in in THEN "Enter" ELSE IF "Q" \in in THEN "Q" ELSE ""

MenuNext(state, key) ==
    IF key = "" THEN state
    ELSE IF key = "Q" THEN "WindowClose"
    ELSE "Play"

\* Variant: the restart sets the state without `*self = Game::new()`.
updateRestartKeepsGame(g, f, in, rnd) ==
    CASE g.state = "Play" ->
            IF "Escape" \in in
            THEN R([g EXCEPT !.state = "Pause"], f, Did("Escape", "pause"))
            ELSE Play(g, f, in, rnd[1])
      [] g.state = "Over" /\ MenuKey("Over", in) = "Enter" ->
            R([g EXCEPT !.state = MenuNext("Over", "Enter")], f,
              [Did("Enter", "restart") EXCEPT !.drew = 2])
      [] g.state = "WindowClose" -> P(g, f, NoEv, "closed")
      [] OTHER ->
            R([g EXCEPT !.state = MenuNext(g.state, MenuKey(g.state, in))], f,
              Did(MenuKey(g.state, in),
                  CASE MenuKey(g.state, in) = "" -> ""
                    [] MenuKey(g.state, in) = "Q" -> "quit"
                    [] g.state = "Start" -> "start"
                    [] OTHER -> "unpause"))

\* Game::update. rnd[1], rnd[2]: the shapes rand::random() would return.
update(g, f, in, rnd) ==
    CASE g.state = "Play" ->
            IF "Escape" \in in
            THEN R([g EXCEPT !.state = "Pause"], f, Did("Escape", "pause"))
            ELSE Play(g, f, in, rnd[1])
      [] g.state = "Over" /\ MenuKey("Over", in) = "Enter" ->
            R([GameNew(rnd[1], rnd[2]) EXCEPT !.state = MenuNext("Over", "Enter")], f,
              [Did("Enter", "restart") EXCEPT !.drew = 2])
      [] g.state = "WindowClose" -> P(g, f, NoEv, "closed")
      [] OTHER ->
            R([g EXCEPT !.state = MenuNext(g.state, MenuKey(g.state, in))], f,
              Did(MenuKey(g.state, in),
                  CASE MenuKey(g.state, in) = "" -> ""
                    [] MenuKey(g.state, in) = "Q" -> "quit"
                    [] g.state = "Start" -> "start"
                    [] OTHER -> "unpause"))

----------------------------------------------------------------------------
(* Game::draw: the only part that reads the grid through _movable_with is the
   ghost offset loop (466-469). "panic" when a call of Grid::at trips. *)

RECURSIVE GhostFrom(_, _)
GhostNext(g, ghost_offset, m) ==
    IF m = "true" THEN GhostFrom(g, ghost_offset + 1)
    ELSE IF m = "panic" THEN "at" ELSE ""

GhostFrom(g, ghost_offset) ==
    GhostNext(g, ghost_offset, _movable_with(g, g.rot, 0, ghost_offset + 1))

draw(g) == GhostFrom(g, 0)

----------------------------------------------------------------------------
(* The environment: keyboard and random source *)

MaxFrames == 2   \* frames of free play from Game::new
MaxTail == 1     \* frames of free play after a scripted game

KeyNames == {"Enter", "EnterReleased", "Q", "Escape",
             "Left", "Right", "Down", "Space", "Up", "Ctrl", "Shift"}

\* What the keyboard reports in one frame of free play: no key, one key, or
\* one of a few pairs of keys.
FreeInputs == {{}} \cup {{k} : k \in KeyNames}
              \cup {{"Enter", "Q"}, {"EnterReleased", "Q"}, {"Left", "Right"}}

\* Scripted play: the head of `keys` is held down until the game registers it;
\* "Wait" holds no key until a piece locks.
Inputs == IF keys = <<>> THEN FreeInputs
          ELSE IF Head(keys) = "Wait" THEN {{}}
          ELSE {{Head(keys)}}

KeysAfter(e) ==
    IF keys = <<>> THEN keys
    ELSE IF Head(keys) = "Wait" THEN (IF e.locked THEN Tail(keys) ELSE keys)
    ELSE IF e.reg = Head(keys) THEN Tail(keys)
    ELSE keys

\* The shapes rand::random() can deliver to a call of update that draws n shapes.
Rnd(n) ==
    IF n = 0 THEN {<<"I", "I">>}
    ELSE IF draws # <<>>
    THEN {<<draws[1], IF Len(draws) > 1 THEN draws[2] ELSE draws[1]>>}
    ELSE IF n = 1 THEN {<<t, "I">> : t \in Tetrominoes}
    ELSE Tetrominoes \X Tetrominoes

DrawsAfter(n) == IF Len(draws) <= n THEN <<>> ELSE SubSeq(draws, n + 1, Len(draws))

\* Scripted games: the keys the player gets registered, one after the other,
\* and the shapes the random source delivers.
RECURSIVE Times(_, _)
Times(n, s) == IF n = 0 THEN <<>> ELSE s \o Times(n - 1, s)

\* Five I pieces turned upright and dropped down the spawn column.
GameTower ==
    [keys  |-> <<"Enter">> \o Times(5, <<"Up", "Space">>),
     draws |-> Times(6, <<"I">>)]

\* Four upright I pieces, an O and a T on the spawn column, then a J.
GameOverlap ==
    [keys  |-> <<"Enter">> \o Times(4, <<"Up", "Space">>) \o <<"Space", "Space", "Space">>,
     draws |-> <<"I", "I", "I", "I", "O", "T", "J", "L">>]

\* Bottom row: I on the left, I in the middle, O on the right.
GameOneRow ==
    [keys  |-> <<"Enter", "Left", "Left", "Left", "Left", "Space", "Space",
                 "Right", "Right", "Right", "Space">>,
     draws |-> <<"I", "I", "O", "T", "T">>]

\* Rows 18..21: flat I pieces over columns 0..7, upright I pieces in columns
\* 8 and 9.
GameFourRows ==
    [keys  |-> <<"Enter">>
               \o Times(4, <<"Left", "Left", "Left", "Left", "Space">>)
               \o Times(4, <<"Space">>)
               \o <<"Up", "Right", "Right", "Right", "Space">>
               \o <<"Up", "Right", "Right", "Right", "Right", "Space">>,
     draws |-> Times(10, <<"I">>) \o <<"T", "T">>]

\* Upright I towers in columns 3 and 8 up to row 2; a flat I on row 1 over
\* columns 0..3 and an L on its side over columns 7..9; an upright I tower in
\* column 4; last a T over columns 4..6 of row 1, its top cell in row 0.
GameTopRow ==
    [keys  |-> <<"Enter">>
               \o Times(4, <<"Up", "Left", "Left", "Space">>)
               \o <<"Up", "Left", "Left", "Wait">>
               \o <<"Left", "Left", "Left", "Left">>
               \o Times(4, <<"Up", "Right", "Right", "Right", "Space">>)
               \o <<"Up", "Right", "Right", "Right", "Wait">>
               \o <<"Up", "Right", "Right", "Right", "Wait">>
               \o Times(5, <<"Up", "Left", "Space">>)
               \o <<"Wait">>,
     draws |-> Times(5, <<"I">>) \o <<"I">> \o Times(5, <<"I">>) \o <<"L">>
               \o Times(5, <<"I">>) \o <<"T", "O", "O">>]

\* Rows 1..4 filled but for column 5, a cell in row 0, nothing full below:
\* flat I pieces over columns 0..3 on an upright tower in column 3; a T on its
\* side on a tower in column 5; upright I pieces in columns 6..9 on a flat I
\* over a tower in column 6; an upright I in column 4 reaching row 0. Then an
\* upright I down column 5, and an O after it.
GameResidual ==
    [keys  |-> <<"Enter">>
               \o <<"Left", "Left", "Left", "Left", "Space">>
               \o Times(4, <<"Up", "Left", "Left", "Space">>)
               \o Times(2, <<"Left", "Left", "Left", "Left", "Space">>)
               \o <<"Left", "Left", "Left", "Left", "Wait">>
               \o <<"Left", "Left", "Left", "Left">>
               \o Times(4, <<"Up", "Space">>)
               \o <<"Up", "Left", "Space">>
               \o Times(4, <<"Up", "Right", "Space">>)
               \o <<"Right", "Right", "Space">>
               \o <<"Up", "Right", "Right", "Right", "Right", "Space">>
               \o <<"Up", "Right", "Right", "Right", "Space">>
               \o <<"Up", "Right", "Right", "Space">>
               \o <<"Up", "Right", "Space">>
               \o <<"Up", "Left", "Space">>
               \o <<"Up", "Space">>
               \o <<"Space">>,
     draws |-> Times(13, <<"I">>) \o <<"T">> \o Times(11, <<"I">>) \o <<"O", "O", "O">>]

\* A move, pause, resume, a soft drop, pause.
GamePause ==
    [keys  |-> <<"Enter", "Left", "Escape", "EnterReleased", "Down", "Escape">>,
     draws |-> <<"S", "Z">>]

\* No key at all after the start: an I piece comes down by the timer alone.
GameFall ==
    [keys  |-> <<"Enter", "Wait">>,
     draws |-> <<"I", "I", "I">>]

\* Hold with an empty slot (the piece turned and moved before), a refused
\* second hold, a lock, a swap (the piece turned and moved before), a refused
\* hold, a lock, a swap.
GameHold ==
    [keys  |-> <<"Enter", "Up", "Left", "Shift", "Shift", "Space",
                 "Up", "Right", "Shift", "Shift", "Space",
                 "Shift", "Space">>,
     draws |-> <<"T", "J", "L", "S", "Z", "O">>]

\* An upright I pushed against the left wall and turned there, then one
\* against the right wall.
GameWalls ==
    [keys  |-> <<"Enter">>
               \o <<"Up">> \o Times(6, <<"Left">>) \o <<"Ctrl", "Space">>
               \o <<"Up">> \o Times(5, <<"Right">>) \o <<"Up", "Space">>,
     draws |-> <<"I", "I", "O", "O">>]

\* The soft drop key held down while an O piece, then a second one, come down.
GameSoftDrop ==
    [keys  |-> <<"Enter">> \o Times(30, <<"Down">>),
     draws |-> <<"O", "O", "I", "I">>]

\* Rotations that need a kick or find none: an upright I at the right wall
\* beside a tower in column 6, a T resting on that tower, and a T on its side
\* at the left wall resting on a tower in column 1.
GameKicks ==
    [keys  |-> <<"Enter">>
               \o Times(4, <<"Up", "Right", "Space">>)
               \o <<"Up", "Right", "Right", "Right", "Right">>
               \o Times(6, <<"Down">>) \o <<"Up", "Ctrl", "Space">>
               \o <<"Right", "Down", "Down", "Down", "Up",
                    "Left", "Left", "Left", "Space">>
               \o Times(4, <<"Up", "Left", "Left", "Left", "Left", "Space">>)
               \o <<"Up", "Left", "Left", "Left", "Left", "Left", "Down", "Down",
                    "Up", "Space">>,
     draws |-> Times(5, <<"I">>) \o <<"T">> \o Times(4, <<"I">>) \o <<"T", "O", "O">>]

\* A flat I pushed to the left wall and twice more against it, then dropped.
GameDebounce ==
    [keys  |-> <<"Enter">> \o Times(6, <<"Left">>) \o <<"Space">>,
     draws |-> <<"I", "I", "I">>]

Scenarios == {GameTower, GameOverlap, GameOneRow, GameFourRows, GameTopRow,
              GameResidual, GamePause, GameHold, GameWalls, GameSoftDrop, GameKicks, GameFall,
              GameDebounce}

----------------------------------------------------------------------------
(* run_tetris: the frame loop *)

\* Variant: a loop that never tests the state.
LoopCondAlways(g) == TRUE

\* The loop condition of line 598.
LoopCond(g) == g.state # "WindowClose"

\* History: the pieces locked in the session so far (a restart begins a session).
LocksAfter(e) ==
    IF e.op = "restart" THEN 0
    ELSE IF e.locked THEN ev.locks + 1
    ELSE ev.locks

\* The logical actions of the chain of lines 347-386, in the order polled.
Actions == {"Left", "Right", "Down", "Space", "Up", "Ctrl", "Shift"}

\* History of the registrations of keys_registered. k is the history so far,
\* reg the action that registered in this call of update ("" for none) and
\* `in` the keys that were down: seen, the actions registered since the
\* program started; last, the one registered most recently; ago, the Play
\* frames since then; held, whether that key alone was down in all of them;
\* gap, the number of frames after which an action last registered again under
\* a key held all the time (0 before the first time).
KeyLogNext(k, state, reg, in) ==
    IF state # "Play" THEN [k EXCEPT !.held = FALSE]
    ELSE IF reg \in Actions
    THEN [seen |-> k.seen \cup {reg},
          last |-> reg,
          ago  |-> 0,
          held |-> in = {reg},
          gap  |-> IF reg = k.last /\ k.held /\ in = {reg} THEN k.ago + 1 ELSE k.gap]
    ELSE [k EXCEPT !.ago = IF @ < FREEZE THEN @ + 1 ELSE @,
                   !.held = @ /\ in = {k.last}]

KeyLogAfter(e, in) == KeyLogNext(ev.keylog, game.state, e.reg, in)

\* One iteration: update, then draw (then next_frame). r is what update
\* returned; a panic in update leaves no draw.
FrameResult(r, d, in) ==
    /\ game' = r.game
    /\ FREEZE_DURATION' = r.f
    /\ ev' = [r.ev EXCEPT !.in = in, !.locks = LocksAfter(r.ev),
                        !.keylog = KeyLogAfter(r.ev, in)]
    /\ panic' = d
    /\ pc' = IF d # "" THEN "panic" ELSE "loop"
    /\ keys' = KeysAfter(r.ev)
    /\ draws' = DrawsAfter(r.ev.drew)
    /\ budget' = IF keys = <<>> /\ budget > 0 THEN budget - 1 ELSE budget

FrameDraw(r, in) == FrameResult(r, IF r.panic # "" THEN r.panic ELSE draw(r.game), in)

\* probe: the update with placeholder shapes, which tells how many shapes
\* the call draws; the shapes are then taken from the random source.
FrameProbe(in, probe) ==
    IF probe.ev.drew = 0 THEN FrameDraw(probe, in)
    ELSE \E rnd \in Rnd(probe.ev.drew) : FrameDraw(update(game, FREEZE_DURATION, in, rnd), in)

Frame ==
    /\ pc = "loop"
    /\ LoopCond(game)
    /\ keys # <<>> \/ budget > 0
    /\ \E in \in Inputs : FrameProbe(in, update(game, FREEZE_DURATION, in, <<"I", "I">>))

\* The loop ends; SCORE_CELL receives game.score.
Exit ==
    /\ pc = "loop"
    /\ ~LoopCond(game)
    /\ pc' = "done"
    /\ ev' = [NoEv EXCEPT !.op = "exit", !.locks = ev.locks, !.keylog = ev.keylog]
    /\ UNCHANGED <<game, FREEZE_DURATION, panic, keys, draws, budget>>

\* Free play from Game::new.
InitFree ==
    /\ \E t \in Tetrominoes, n \in Tetrominoes : game = GameNew(t, n)
    /\ keys = <<>>
    /\ draws = <<>>
    /\ budget = MaxFrames

\* A scripted game from Game::new, then free play.
InitScripted ==
    \E s \in Scenarios :
        /\ game = GameNew(s.draws[1], s.draws[2])
        /\ keys = s.keys
        /\ draws = SubSeq(s.draws, 3, Len(s.draws))
        /\ budget = MaxTail

Init ==
    /\ InitFree \/ InitScripted
    /\ FREEZE_DURATION = 0
    /\ pc = "loop"
    /\ panic = ""
    /\ ev = NoEv

Next == Frame \/ Exit

Spec == Init /\ [][Next]_vars

----------------------------------------------------------------------------
(* A long session: O pieces laid side by side, five to a pair of rows, which
   the fifth clears. *)

MaxRounds == 181   \* rounds of five O pieces

OPieceRound ==
    <<"Left", "Left", "Left", "Left", "Left", "Space",
      "Left", "Left", "Left", "Space",
      "Left", "Space",
      "Right", "Space",
      "Right", "Right", "Right", "Space">>

\* The sequence s, n times over.
Repeat(n, s) == [i \in 1 .. (n * Len(s)) |-> s[((i - 1) % Len(s)) + 1]]

GameLevels ==
    [keys  |-> <<"Enter">> \o Repeat(MaxRounds, OPieceRound),
     draws |-> Repeat(5 * MaxRounds + 3, <<"O">>)]

InitLevels ==
    /\ \/ InitFree
       \/ /\ game = GameNew(GameLevels.draws[1], GameLevels.draws[2])
          /\ keys = GameLevels.keys
          /\ draws = SubSeq(GameLevels.draws, 3, Len(GameLevels.draws))
          /\ budget = MaxTail
    /\ FREEZE_DURATION = 0
    /\ pc = "loop"
    /\ panic = ""
    /\ ev = NoEv

SpecLevels == InitLevels /\ [][Next]_vars

----------------------------------------------------------------------------
(* Play left alone: after a scripted opening no key is ever down again, and
   the loop keeps running. *)

IdleRounds == 8   \* rounds of the seven shapes the source delivers in IdleClear

\* Four upright I pieces and an O on the spawn column; the two shapes that
\* follow, and every shape after them, are what the random source delivers.
IdleTower ==
    [keys  |-> <<"Enter">> \o Times(4, <<"Up", "Space">>) \o <<"Space">>,
     draws |-> <<"I", "I", "I", "I", "O">>]

\* Row 21: a flat I over columns 0..3 and an O over columns 8..9; the pieces
\* left alone after that fall on columns 4..7, and the first, a flat I,
\* completes the row.
IdleClear ==
    [keys  |-> <<"Enter", "Left", "Left", "Left", "Left", "Space",
                 "Right", "Right", "Right", "Space">>,
     draws |-> <<"I", "O", "I">> \o Repeat(IdleRounds, <<"T", "O", "S", "I", "Z", "L", "J">>)]

IdleScenarios == {IdleTower, IdleClear}

IdleInputs == IF keys = <<>> THEN {{}} ELSE Inputs

FrameIdle ==
    /\ pc = "loop"
    /\ LoopCond(game)
    /\ \E in \in IdleInputs : FrameProbe(in, update(game, FREEZE_DURATION, in, <<"I", "I">>))

InitIdle ==
    /\ \E s \in IdleScenarios :
          /\ game = GameNew(s.draws[1], s.draws[2])
          /\ keys = s.keys
          /\ draws = SubSeq(s.draws, 3, Len(s.draws))
    /\ budget = 0
    /\ FREEZE_DURATION = 0
    /\ pc = "loop"
    /\ panic = ""
    /\ ev = NoEv

NextIdle == FrameIdle

\* A game in Play with no key down and no more keys to come: the frame that
\* follows changes the timer, the piece or the state.
IdleRunning == pc = "loop" /\ game.state = "Play" /\ keys = <<>>

\* The loop of line 598 goes on while the window is open: a game that stays
\* in IdleRunning has its frames processed again and again. This is what
\* WF_vars(FrameIdle) says of such a game, with the state predicate written
\* out for ENABLED <<FrameIdle>>_vars.
FrameIdleFair == []<>(~IdleRunning) \/ []<><<FrameIdle>>_vars

SpecIdle == InitIdle /\ [][NextIdle]_vars /\ FrameIdleFair

----------------------------------------------------------------------------
(* squash_filled_rows on its own: every grid of a bounded family *)

MaxWindow == 5

RowKinds == {"E", "F", "P"}

\* A grid: nothing above row `top`, then rows of the given kinds (E empty,
\* F filled, P filled but for one column), then P rows down to the bottom.
\* The free column of a P row depends on the row, so P rows differ.
StackGrid(top, kinds) ==
    [i \in Cells |->
        LET y == i \div WIDTH
            x == i % WIDTH
            kind == IF y < top THEN "E"
                    ELSE IF y - top + 1 <= Len(kinds) THEN kinds[y - top + 1]
                    ELSE "P"
        IN CASE kind = "E" -> None
             [] kind = "F" -> "I"
             [] kind = "P" -> IF x = y % WIDTH THEN None ELSE "T"]

InitSquash ==
    /\ \E top \in 0 .. (HEIGHT - 1), kinds \in [1 .. MaxWindow -> RowKinds] :
          game = [GameNew("I", "I") EXCEPT !.grid = StackGrid(top, kinds)]
    /\ FREEZE_DURATION = 0
    /\ pc = "squash"
    /\ panic = ""
    /\ ev = NoEv
    /\ keys = <<>>
    /\ draws = <<>>
    /\ budget = 0

\* One call of squash_filled_rows on the grid.
SquashResult(sq) ==
    /\ game' = [game EXCEPT !.grid = sq.cells,
                            !.score = IF sq.panic = "" THEN @ + _to_score(sq.rows) ELSE @]
    /\ ev' = [NoEv EXCEPT !.op = "squash", !.rows = sq.rows]
    /\ panic' = sq.panic

Squash ==
    /\ pc = "squash"
    /\ SquashResult(squash_filled_rows(game.grid))
    /\ pc' = "squashed"
    /\ UNCHANGED <<FREEZE_DURATION, keys, draws, budget>>

NextSquash == Squash

SpecSquash == InitSquash /\ [][NextSquash]_vars

----------------------------------------------------------------------------
(* Properties *)

\* The reference result of a squash: each row that is not filled moves down by
\* the number of filled rows below it; the rows no row moves to are empty.
\* RefSrc: for each row, the row whose contents it receives (HEIGHT: none).
RefSrc(cells, full) ==
    [y \in 0 .. (HEIGHT - 1) |->
        IF \E z \in 0 .. (HEIGHT - 1) :
              z \notin full /\ z + Cardinality({w \in full : w > z}) = y
        THEN CHOOSE z \in 0 .. (HEIGHT - 1) :
              z \notin full /\ z + Cardinality({w \in full : w > z}) = y
        ELSE HEIGHT]

RefCells(cells, src) ==
    [i \in Cells |->
        IF src[i \div WIDTH] = HEIGHT THEN None
        ELSE at(cells, i % WIDTH, src[i \div WIDTH])]

FullRows(cells) == {y \in 0 .. (HEIGHT - 1) : RowFilled(cells, y)}

RefFor(cells, full) == RefCells(cells, RefSrc(cells, full))

Reference(cells) == RefFor(cells, FullRows(cells))

\* C1: for every grid with 0 to 4 filled rows, squash_filled_rows leaves the
\* reference result (rows that are not filled keep order and contents, moved
\* down by the number of filled rows below them, the freed rows on top empty).
C1_SquashMatchesReference ==
    [][(pc = "squash" /\ NoFilledRows(game.grid) <= MAX_SQUASHED)
          => game'.grid = Reference(game.grid)]_vars

\* C2: on every playfield a lock leaves behind, a second call of
\* squash_filled_rows finds no filled row and leaves the grid as it is.
C2_SquashIdempotent ==
    (ev.locked /\ panic = "")
        => /\ squash_filled_rows(game.grid).rows = 0
           /\ squash_filled_rows(game.grid).cells = game.grid

\* The score table of the claim.
ScoreFor(rows) ==
    CASE rows = 0 -> 0 [] rows = 1 -> 5 [] rows = 2 -> 15 [] rows = 3 -> 30 [] rows = 4 -> 50

\* C3: a lock adds 0, 5, 15, 30 or 50 to the score for 0, 1, 2, 3 or 4 rows
\* filled after the piece was written; a restart starts from 0; no other step
\* changes the score.
C3_ScoreByTable ==
    [][IF ev'.locked /\ panic' = ""
       THEN ev'.rows \in 0 .. 4 /\ game'.score = game.score + ScoreFor(ev'.rows)
       ELSE IF ev'.op = "restart" THEN game'.score = 0
       ELSE game'.score = game.score]_vars

\* A lock that filled four rows has added 50 to a score of 0.
C3_Witness == ev.locked /\ ev.rows = 4 /\ game.score = 50

\* C4: no lock finds more than four filled rows, and the assert of _to_score
\* never fails.
C4_AtMostFourRows == ev.rows <= 4 /\ panic # "score"

\* A lock found four filled rows and the game goes on.
C4_Witness == ev.locked /\ ev.rows = 4 /\ panic = "" /\ game.state = "Play"

\* C5: no assert of Grid::at / Grid::at_mut and no overflow assert of the lock
\* sequence fails.
C5_NoBoundsPanic == panic \notin {"at", "overflow"}

\* A piece moved to the right wall and hard-dropped to the floor, the lock
\* wrote it and squash_filled_rows removed a row.
C5_Witness ==
    /\ ev.locked /\ ev.op = "hard_drop" /\ ev.rows = 1 /\ panic = ""
    /\ at(game.grid, WIDTH - 1, HEIGHT - 1) # None

\* C6: the four cells a lock writes were all empty just before the write.
C6_LockWritesEmptyCells == ev.locked => ev.clean

\* The shape the lock had in the next queue, legal at the spawn position in
\* orientation DEG0 on the grid the lock left.
NewPieceLegal ==
    MovableFrom(game.grid, SpawnPos,
                neighbors(IF game.state = "Over" THEN game.next_tetromino ELSE game.tetromino,
                          "DEG0"),
                0, 0, 1) = "true"

\* C7: a lock ends the game exactly when the next-queue shape is not legal at
\* the spawn position in orientation DEG0; otherwise the piece that becomes
\* active is legal there.
C7_SpawnTestOnNewPiece ==
    (ev.locked /\ panic = "") => ((game.state = "Over") <=> ~NewPieceLegal)

AllowedTransitions ==
    {<<"Start", "Play">>, <<"Play", "Pause">>, <<"Pause", "Play">>,
     <<"Play", "Over">>, <<"Over", "Play">>}
    \cup {<<s, "WindowClose">> : s \in States}

\* C8: the state changes only along Start->Play, Play->Pause, Pause->Play,
\* Play->Over, Over->Play and X->WindowClose, and Play->Over only in a lock.
C8_Transitions ==
    [][/\ game'.state # game.state => <<game.state, game'.state>> \in AllowedTransitions
       /\ (game.state = "Play" /\ game'.state = "Over") => ev'.locked]_vars

\* A lock has ended the game.
C8_Witness == game.state = "Over" /\ ev.locked /\ ev.op = "hard_drop"

\* C9 as stated: in Start, Play, Pause and Over an update that sees the quit
\* key (and no other key) moves the game to WindowClose.
C9_QuitFromEveryState ==
    [][(pc = "loop" /\ ev'.in = {"Q"} /\ game.state \in {"Start", "Play", "Pause", "Over"})
          => game'.state = "WindowClose"]_vars

\* C9 amended: in Start, Pause and Over an update that sees the quit key, and
\* not the key its branch tests first, moves the game to WindowClose; an update
\* in Play never does.
C9_QuitFromMenus ==
    [][/\ (/\ pc = "loop" /\ "Q" \in ev'.in
           /\ \/ game.state = "Start" /\ "Enter" \notin ev'.in
              \/ game.state = "Pause" /\ "EnterReleased" \notin ev'.in
              \/ game.state = "Over" /\ "Enter" \notin ev'.in)
          => game'.state = "WindowClose"
       /\ game.state = "Play" => game'.state # "WindowClose"]_vars

\* The quit key has closed a paused game.
C9_Witness ==
    game.state = "WindowClose" /\ ev.op = "quit" /\ "Q" \in ev.in /\ game.tick > 0

\* C10: once the state is WindowClose the loop runs no further iteration: the
\* only step left ends the loop, and the panic of update is never reached.
C10_ClosedIsTerminal ==
    [][/\ game.state = "WindowClose" => (pc' = "done" /\ game' = game /\ panic' = "")
       /\ panic' # "closed"]_vars

\* The loop has ended in WindowClose.
C10_Witness == pc = "done" /\ game.state = "WindowClose" /\ panic = ""

\* The discrete actions of the Play branch, as update logs them when taken.
DiscreteOps == {"left", "right", "soft_drop", "soft_drop_lock", "hard_drop", "rotate", "hold"}

\* C11: a Play frame in which a discrete action is taken (a move applied, a
\* soft drop, a hard drop, a rotation applied, a hold) skips the fall step: the
\* fall timer is not incremented and the timer neither moves nor locks the piece.
C11_ActionSkipsFall ==
    [][(game.state = "Play" /\ ev'.op \in DiscreteOps)
          => /\ ev'.fall = ""
             /\ (ev'.locked \/ game'.tick = game.tick)]_vars

\* C12: a registered soft drop with the piece legal one row lower moves the
\* anchor down by exactly one row and leaves the fall timer at 0; with the piece
\* not legal one row lower it locks the piece in that frame.
C12_SoftDrop ==
    [][/\ (game.state = "Play" /\ ev'.reg = "Down" /\ _movable_with(game, game.rot, 0, 1) = "true")
            => /\ game'.pos = <<game.pos[1], game.pos[2] + 1>>
               /\ game'.tick = 0
               /\ ~ev'.locked
       /\ (game.state = "Play" /\ ev'.reg = "Down" /\ _movable_with(game, game.rot, 0, 1) = "false")
            => ev'.locked]_vars

\* The four cells of shape t in orientation rot at the anchor <<x, y>>.
PieceCells(t, rot, x, y) ==
    {<<x + neighbors(t, rot)[i][1], y + neighbors(t, rot)[i][2]>> : i \in 1 .. 4}

\* is_legal: the four cells are on the grid and empty.
IsLegal(cells, t, rot, x, y) ==
    \A c \in PieceCells(t, rot, x, y) :
        /\ c[1] \in 0 .. (WIDTH - 1)
        /\ c[2] \in 0 .. (HEIGHT - 1)
        /\ cells[c[2] * WIDTH + c[1]] = None

\* The largest d such that the piece is legal at every downward shift 1 .. d.
DropDepth(cells, t, rot, x, y) ==
    CHOOSE d \in 0 .. HEIGHT :
        /\ \A k \in 1 .. d : IsLegal(cells, t, rot, x, y + k)
        /\ ~IsLegal(cells, t, rot, x, y + d + 1)

\* The grid with the four cells of the piece set to its shape.
WithPiece(cells, t, rot, x, y) ==
    [i \in Cells |-> IF <<i % WIDTH, i \div WIDTH>> \in PieceCells(t, rot, x, y)
                     THEN t ELSE cells[i]]

\* The grid a lock of the active piece at row y leaves: the piece written,
\* then the filled rows squashed.
GridLockedAt(g, y) ==
    squash_filled_rows(WithPiece(g.grid, g.tetromino, g.rot, g.pos[1], y)).cells

\* C13: a registered hard drop locks the piece in the same frame, in its column
\* and orientation, at the anchor row increased by the largest d such that
\* every downward shift 1 .. d is legal; the lock writes exactly the four cells
\* of the piece at that anchor.
C13_HardDrop ==
    [][(game.state = "Play" /\ ev'.reg = "Space")
          => /\ ev'.locked /\ panic' = ""
             /\ game'.grid =
                  GridLockedAt(game, game.pos[2] + DropDepth(game.grid, game.tetromino,
                                                            game.rot, game.pos[1], game.pos[2]))]_vars

\* A hard drop has taken a piece from the spawn row to the floor.
C13_Witness ==
    /\ ev.op = "hard_drop" /\ ev.locked /\ ev.rows = 0 /\ panic = ""
    /\ \E x \in 0 .. (WIDTH - 1) : at(game.grid, x, HEIGHT - 1) # None
    /\ Cardinality({i \in Cells : game.grid[i] # None}) = 4

\* The first offset of 0, -1, +1, -2, +2 at which the piece is legal in
\* orientation rot (3 when there is none).
FirstKick(cells, t, rot, x, y) ==
    IF IsLegal(cells, t, rot, x, y) THEN 0
    ELSE IF IsLegal(cells, t, rot, x - 1, y) THEN -1
    ELSE IF IsLegal(cells, t, rot, x + 1, y) THEN 1
    ELSE IF IsLegal(cells, t, rot, x - 2, y) THEN -2
    ELSE IF IsLegal(cells, t, rot, x + 2, y) THEN 2
    ELSE 3

\* The effect of a registered rotation to new_rot, k the first legal offset.
RotationEffect(new_rot, k) ==
    IF k # 3
    THEN /\ game'.rot = new_rot
         /\ game'.pos = <<game.pos[1] + k, game.pos[2]>>
         /\ game'.tetromino = game.tetromino
         /\ ~ev'.locked
    ELSE IF ev'.locked
    THEN game'.grid = GridLockedAt(game, game.pos[2])
    ELSE /\ game'.rot = game.rot
         /\ game'.pos[1] = game.pos[1]
         /\ game'.tetromino = game.tetromino

\* C14: a registered rotation takes the target orientation at the first of the
\* offsets 0, -1, +1, -2, +2 at which the rotated piece is legal, the column
\* changed by that offset and the row unchanged; with no legal offset the
\* orientation and the column stay (a lock by the fall timer in that frame
\* locks the piece as it was).
C14_RotationKick ==
    [][/\ (game.state = "Play" /\ ev'.reg = "Up")
            => RotationEffect(spin_cw(game.rot),
                              FirstKick(game.grid, game.tetromino, spin_cw(game.rot),
                                        game.pos[1], game.pos[2]))
       /\ (game.state = "Play" /\ ev'.reg = "Ctrl")
            => RotationEffect(spin_acw(game.rot),
                              FirstKick(game.grid, game.tetromino, spin_acw(game.rot),
                                        game.pos[1], game.pos[2]))]_vars

\* A clockwise rotation was applied two columns to the right: from the column
\* the piece came from, +2 is the first legal offset.
C14_Witness ==
    /\ ev.op = "rotate" /\ ev.reg = "Up" /\ panic = ""
    /\ FirstKick(game.grid, game.tetromino, game.rot, game.pos[1] - 2, game.pos[2]) = 2

\* The three shapes a hold can change.
Shapes(g) == <<g.holding_tetromino, g.tetromino, g.next_tetromino>>

\* C15: once a hold has been performed, no step before the next lock (a
\* further hold input included) changes the hold slot, the active shape or the
\* next shape, and the hold stays used; a lock that keeps the game in Play
\* restores the permission, and a permitted hold input is performed.
C15_HoldOncePerLock ==
    [][/\ ev'.op = "hold" => game'.swapped
       /\ (game.state = "Play" /\ game.swapped /\ ~ev'.locked)
            => (Shapes(game') = Shapes(game) /\ game'.swapped /\ ev'.op # "hold")
       /\ (ev'.locked /\ game'.state = "Play") => ~game'.swapped
       /\ (game.state = "Play" /\ ~game.swapped /\ ev'.reg = "Shift") => ev'.op = "hold"]_vars

\* A second hold input before the lock was refused, the slot occupied.
C15_Witness ==
    /\ ev.op = "hold_refused" /\ game.swapped /\ game.holding_tetromino # None
    /\ game.level.piece_count > 1

\* The interval the claim gives for n pieces locked: 30, and 25 from the 26th
\* lock on, then 20, 15, 12, 10, 8, 6, 5 from 51, 101, 201, 301, 501, 701, 901.
IntervalAsClaimed(n) ==
    CASE n < 26 -> 30
      [] n < 51 -> 25
      [] n < 101 -> 20
      [] n < 201 -> 15
      [] n < 301 -> 12
      [] n < 501 -> 10
      [] n < 701 -> 8
      [] n < 901 -> 6
      [] OTHER -> 5

\* The locks of the session that left the game going (the lock that ended the
\* game is the last one).
LocksKeptPlay(g, e) == IF g.state = "Over" THEN e.locks - 1 ELSE e.locks

\* The interval changes only in a lock that keeps the game in Play, and only
\* downwards; a restart starts from 30 again.
IntervalSteps ==
    /\ game'.level.tick_rate # game.level.tick_rate
         => \/ ev'.locked /\ game'.state = "Play"
                /\ game'.level.tick_rate < game.level.tick_rate
            \/ ev'.op = "restart"
    /\ ev'.op = "restart" => game'.level.tick_rate = 30

\* C16 as stated: the interval is the claimed function of the number of
\* pieces locked (30 up to 25 locks, 25 from the 26th lock), and it changes
\* only in a lock and only downwards.
C16_IntervalByLocks ==
    [][/\ game'.state \in {"Start", "Play", "Pause", "Over"}
            => game'.level.tick_rate = IntervalAsClaimed(LocksKeptPlay(game', ev'))
       /\ IntervalSteps]_vars

\* C16 amended: the interval is 30 from the start and becomes 25, 20, 15, 12,
\* 10, 8, 6, 5 at the 25th, 50th, 100th, 200th, 300th, 500th, 700th, 900th
\* lock that keeps the game in Play (the piece counter, which starts at 1,
\* then reaches 26, 51, ...); it changes only in such a lock and only downwards.
C16_IntervalByPieceCount ==
    [][/\ game'.state \in {"Start", "Play", "Pause", "Over"}
            => /\ game'.level.piece_count = LocksKeptPlay(game', ev') + 1
               /\ game'.level.tick_rate = IntervalAsClaimed(LocksKeptPlay(game', ev') + 1)
       /\ IntervalSteps]_vars

\* The 25th lock of a session has brought the interval from 30 to 25.
C16_Witness ==
    /\ ev.locked /\ ev.locks = 25 /\ game.state = "Play"
    /\ game.level.piece_count = 26 /\ game.level.tick_rate = 25

\* C17: a restart input in Over gives, in the same update, a game in Play with
\* an empty grid, score 0, the initial level (piece counter 1, interval 30), an
\* empty hold slot and hold permitted, fall timer 0, and the active piece at
\* (WIDTH / 2, 1) in orientation DEG0; the count of locks starts again.
C17_RestartIsFresh ==
    [][(pc = "loop" /\ game.state = "Over" /\ "Enter" \in ev'.in)
          => /\ game'.state = "Play"
             /\ \A i \in Cells : game'.grid[i] = None
             /\ game'.score = 0
             /\ game'.level = [tick_rate |-> 30, piece_count |-> 1]
             /\ game'.holding_tetromino = None /\ ~game'.swapped
             /\ game'.tick = 0
             /\ game'.pos = <<WIDTH \div 2, 1>> /\ game'.rot = "DEG0"
             /\ game'.tetromino \in Tetrominoes /\ game'.next_tetromino \in Tetrominoes
             /\ DOMAIN game' = DOMAIN GameNew("I", "I")]_vars

\* A restart after a game that had put pieces on the grid.
C17_Witness ==
    /\ ev.op = "restart" /\ game.state = "Play" /\ game.grid = GridNew
    /\ budget < MaxTail /\ draws = <<>>

\* C18: a permitted hold with the slot empty puts the active shape in the slot,
\* makes the next shape active and draws a next shape; with the slot occupied it
\* exchanges the active and the held shape and leaves the next shape; both put
\* the anchor at (WIDTH / 2, 1) and the orientation at DEG0 and leave grid,
\* score and level as they are.
C18_HoldEffect ==
    [][(game.state = "Play" /\ ev'.reg = "Shift" /\ ~game.swapped)
          => /\ game'.holding_tetromino = game.tetromino
             /\ IF game.holding_tetromino = None
                THEN /\ game'.tetromino = game.next_tetromino
                     /\ game'.next_tetromino \in Tetrominoes
                     /\ draws # <<>> => (game'.next_tetromino = Head(draws) /\ draws' = Tail(draws))
                ELSE /\ game'.tetromino = game.holding_tetromino
                     /\ game'.next_tetromino = game.next_tetromino
                     /\ draws' = draws
             /\ game'.pos = <<WIDTH \div 2, 1>> /\ game'.rot = "DEG0"
             /\ game'.grid = game.grid /\ game'.score = game.score
             /\ game'.level = game.level /\ game'.state = "Play"]_vars

\* An exchange with the held shape: the T held first is active again, the L
\* that was moved and turned is in the slot.
C18_Witness ==
    /\ ev.op = "hold" /\ game.tetromino = "T" /\ game.holding_tetromino = "L"
    /\ game.pos = SpawnPos /\ game.rot = "DEG0" /\ game.level.piece_count = 2

\* C19 as stated: in a Play frame with no key down and the piece free to fall,
\* the timer is incremented, and in the frame in which it reaches the interval
\* the piece goes down one row and the timer is 0 again (descents are
\* tick_rate frames apart).
C19_FallEveryInterval ==
    [][(game.state = "Play" /\ ev'.in = {} /\ _movable_with(game, game.rot, 0, 1) = "true"
        /\ game.tick < game.level.tick_rate)
          => IF game.tick + 1 = game.level.tick_rate
             THEN game'.pos = <<game.pos[1], game.pos[2] + 1>> /\ game'.tick = 0
             ELSE game'.pos = game.pos /\ game'.tick = game.tick + 1]_vars

\* C19 amended: in a Play frame in which no key registers and the piece is
\* free to fall, a timer below the interval is incremented and the piece stays;
\* a timer at the interval is set to 0 and the piece goes down one row. From a
\* timer of 0 that is tick_rate frames of counting and the descent in the
\* frame after them: descents are tick_rate + 1 frames apart.
C19_FallAfterInterval ==
    [][(game.state = "Play" /\ ev'.reg = "" /\ "Escape" \notin ev'.in
        /\ _movable_with(game, game.rot, 0, 1) = "true")
          => /\ game.tick <= game.level.tick_rate
             /\ IF game.tick = game.level.tick_rate
                THEN game'.pos = <<game.pos[1], game.pos[2] + 1>> /\ game'.tick = 0
                ELSE game'.pos = game.pos /\ game'.tick = game.tick + 1
             /\ game'.rot = game.rot /\ game'.tetromino = game.tetromino]_vars

\* With no key down the timer has taken the I piece down a second row.
C19_Witness ==
    /\ ev.fall = "descend" /\ ev.in = {} /\ ev.locks = 0
    /\ game.tetromino = "I" /\ game.pos = <<WIDTH \div 2, 3>> /\ game.tick = 0

\* C20: an update in Start, Pause or Over changes nothing of the game but
\* possibly the state, a restart from Over apart; Pause moves to Play only
\* with the unpause input.
C20_MenusChangeStateOnly ==
    [][(pc = "loop" /\ game.state \in {"Start", "Pause", "Over"})
          => /\ ev'.op = "restart" \/ [game' EXCEPT !.state = game.state] = game
             /\ ev'.op = "restart" => game.state = "Over"
             /\ (game.state = "Pause" /\ game'.state = "Play") => "EnterReleased" \in ev'.in
             /\ (game.state = "Pause" /\ game'.state # "Pause") => ev'.in \cap {"EnterReleased", "Q"} # {}]_vars

\* A frame with the soft drop key down has left a paused game as it was: the
\* piece where the player had moved it, the timer where it stood.
C20_Witness ==
    /\ game.state = "Pause" /\ ev.in = {"Down"} /\ ev.op = ""
    /\ game.tick > 0 /\ game.pos # SpawnPos

----------------------------------------------------------------------------
(* The key debounce *)

\* An action that has never registered since the program started has no
\* refractory period of its own: when its key alone is down in a frame of Play
\* after some other action registered, it registers.
DebounceIndependent ==
    \A b \in Actions \ ev.keylog.seen :
        (game.state = "Play" /\ ev.keylog.seen # {} /\ ev'.in = {b}) => ev'.reg = b

\* An action whose key alone is held down registers again after the same
\* number of frames of Play each time.
DebounceFixed ==
    (/\ game.state = "Play"
     /\ ev'.reg \in Actions /\ ev'.reg = ev.keylog.last /\ ev'.in = {ev'.reg}
     /\ ev.keylog.held /\ ev.keylog.gap # 0)
    => ev.keylog.ago + 1 = ev.keylog.gap

\* C21: the debounce is independent per logical action and lasts a fixed
\* number of frames: a press of an action is not suppressed by the refractory
\* period of another action, and an action registers again only after the
\* same fixed number of frames of Play, whatever else is polled.
C21_DebouncePerAction == [][DebounceIndependent /\ DebounceFixed]_vars

----------------------------------------------------------------------------
(* Play left alone *)

\* C22: when the game is in Play and no input is given from then on while the
\* frames go on, the game reaches Over, whatever shapes are drawn.
C22_IdlePlayEnds == (game.state = "Play" /\ keys = <<>>) ~> (game.state = "Over")

\* The timer locked a piece of a game left alone and the game is over.
C22_Witness ==
    /\ keys = <<>> /\ game.state = "Over"
    /\ ev.locked /\ ev.fall = "lock" /\ ev.in = {}

====
